---------------------------- MODULE Spec2Model ----------------------------
(***************************************************************************)
(* A model of the two scripts of the repository:                           *)
(*                                                                         *)
(*   src/scrape-bricklink.py   scrape_bricklink_item and its nested        *)
(*                             extract_price_box                           *)
(*   src/parse-shopee.py       parse_shopee_html and main                  *)
(*                                                                         *)
(* Text is modelled as a sequence of lexemes ("atoms"): a label such as    *)
(* "Avg Price:" is one atom, a digit, a dot and a comma are one atom each. *)
(* The regular expressions of the source are translated piece by piece     *)
(* (literal, \s*, character class, group) into operators on such           *)
(* sequences; re.search is the leftmost position where the pieces match.   *)
(***************************************************************************)
EXTENDS Integers, Sequences, FiniteSets, TLC

VARIABLES
    \* ---- extract_price_box applied to one bucket container
    box,            \* the container's markup: atoms and node breaks
    bucket,         \* Pending, or the outcome of extract_price_box(box)
    \* ---- scrape_bricklink_item
    fpc,            \* position in scrape_bricklink_item
    url,            \* the query string of the url argument, as (key, value) pairs
    item_type,      \* local item_type
    item_id,        \* local item_id
    requests,       \* the requests.get calls issued so far, in order
    basic,          \* title and weight read from the item page
    price_boxes,    \* price_soup.select(SELECTOR_PRICE_BOXES)
    bi,             \* which of the four extract_price_box calls is next
    pricing_data,   \* local pricing_data
    result,         \* Pending, or what scrape_bricklink_item returned or raised
    \* ---- parse_shopee_html applied to one product-item container
    container,      \* the container's markup: atoms and element starts
    emitted,        \* Pending, or the outcome of the loop body on container
    \* ---- main of parse-shopee.py
    pc,             \* position in main / parse_shopee_html
    matched,        \* the list glob.glob returned, in the directory's order
    files,          \* local files: sorted(glob.glob(...))
    fi,             \* index in files of the file being parsed
    items,          \* local items of parse_shopee_html
    idx,            \* loop index of parse_shopee_html (1-based)
    products,       \* local products of parse_shopee_html
    all_products,   \* local all_products of main
    csv,            \* shopee-products.csv: whether it exists, and its rows
    csv_opens,      \* how many times the CSV file was opened for writing
    opened          \* the input files opened so far, in order

boxVars  == <<box, bucket>>
fetchVars == <<fpc, url, item_type, item_id, requests, basic, price_boxes, bi,
               pricing_data, result>>
itemVars == <<container, emitted>>
mainVars == <<pc, matched, files, fi, items, idx, products, all_products, csv,
              csv_opens, opened>>
vars == <<boxVars, fetchVars, itemVars, mainVars>>

\* Python's None. TLC compares a string of the model (a sequence of atoms)
\* only with sequences, so None is written NoneStr where a string may stand.
None    == [py |-> "None"]
NoneStr == <<"None">>

\* What a call did: it returned a value or raised an exception; Pending before it.
Pending     == [kind |-> "pending"]
Returned(v) == [kind |-> "return", value |-> v]
Raised(e)   == [kind |-> "raise", value |-> e]

(***************************************************************************)
(* Bounds of the model.                                                    *)
(***************************************************************************)
MaxBoxLen  == 5     \* symbols in one bucket container (extract_price_box alone)
MaxParams  == 2     \* key=value pairs in the url's query string
MaxBoxes   == 5     \* containers the price-guide selector may match
MaxTokens  == 4     \* symbols in one product-item container (loop body alone)
MaxFiles   == 2     \* shop-listing-*.txt files in the directory
MaxItems   == 2     \* product-item containers in one file

(***************************************************************************)
(* Strings as sequences of atoms.                                          *)
(***************************************************************************)
Space == {" ", "\n"}                                   \* \s and str.strip()

RECURSIVE RunEnd(_, _, _)
\* One past the longest run of atoms of class C that starts at s[i]: a greedy
\* C* at position i.
RunEnd(s, i, C) ==
    IF i <= Len(s) /\ s[i] \in C THEN RunEnd(s, i + 1, C) ELSE i

Sub(s, i, j) == SubSeq(s, i, j - 1)                    \* s[i:j], 1-based

RECURSIVE LStrip(_)
LStrip(s) == IF s # <<>> /\ Head(s) \in Space THEN LStrip(Tail(s)) ELSE s

RECURSIVE RStrip(_)
RStrip(s) ==
    IF s # <<>> /\ s[Len(s)] \in Space THEN RStrip(SubSeq(s, 1, Len(s) - 1)) ELSE s

\* str.strip()
Strip(s) == RStrip(LStrip(s))

\* A faulty variant of RemoveCommas: the replace(',', '') forgotten.
RemoveCommasNot(s) == s

\* str.replace(',', '')
RemoveCommas(s) == SelectSeq(s, LAMBDA a : a # ",")

\* The sequences of at most n symbols.
Markups(Symbols, n) == UNION {[1..k -> Symbols] : k \in 0..n}

\* The least element of a non-empty set of integers.
Least(S) == CHOOSE x \in S : \A y \in S : x <= y

RECURSIVE SplitNodes(_, _)
\* The text nodes of a markup: the runs of atoms between the symbols of Breaks.
SplitNodes(m, Breaks) ==
    IF m = <<>> THEN << <<>> >>
    ELSE LET rest == SplitNodes(Tail(m), Breaks)
         IN  IF Head(m) \in Breaks
             THEN << <<>> >> \o rest
             ELSE << <<Head(m)>> \o Head(rest) >> \o Tail(rest)

(***************************************************************************)
(* src/scrape-bricklink.py: extract_price_box.                             *)
(***************************************************************************)
NodeBreak == "|"                \* a boundary between two text nodes of the box

\* The atoms of a bucket container's text.
BoxAtoms ==
    {"Qty Avg Price:", "Avg Price:", "Times Sold:", "usd", " ", "5", ".", ",",
     "(Unavailable)"}

BoxSymbols == BoxAtoms \cup {NodeBreak}

Digit    == {"5"}                                       \* \d
Letters  == {"usd", "USD"}                              \* [A-Z] under IGNORECASE
NumChars == Digit \cup {",", "."}                       \* [\d,\.]

\* str.lower() and str.upper() on the atoms that have letters.
Lower(a) ==
    CASE a = "(Unavailable)"  -> "(unavailable)"
      [] a = "(UNAVAILABLE)"  -> "(unavailable)"
      [] a = "Qty Avg Price:" -> "qty avg price:"
      [] a = "Avg Price:"     -> "avg price:"
      [] a = "Times Sold:"    -> "times sold:"
      [] a = "Total Lots:"    -> "total lots:"
      [] a = "Total Qty:"     -> "total qty:"
      [] a = "Min Price:"     -> "min price:"
      [] a = "Max Price:"     -> "max price:"
      [] a = "USD"            -> "usd"
      [] a \in {"Lego", "LEGO"} -> "lego"
      [] OTHER                -> a

Upper(a) == IF a \in {"usd", "USD"} THEN "USD" ELSE a

\* The lower-cased label literals that end at the end of atom a: the atom
\* "Qty Avg Price:" ends with "avg price:" as well.
LabelsEnding(a) ==
    {Lower(a)} \cup (IF Lower(a) = "qty avg price:" THEN {"avg price:"} ELSE {})

\* box.get_text(separator='\n', strip=True): every text node stripped, the
\* empty ones dropped, the rest joined by a line break.
RECURSIVE JoinLines(_)
JoinLines(nodes) ==
    IF nodes = <<>> THEN <<>>
    ELSE LET h == Strip(Head(nodes))
             r == JoinLines(Tail(nodes))
         IN  IF h = <<>> THEN r
             ELSE IF r = <<>> THEN h
             ELSE h \o <<"\n">> \o r

BoxText(b) == JoinLines(SplitNodes(b, {NodeBreak}))

\* The seven patterns, each by its (lower-cased) label literal.
RE_TIMES_SOLD    == "times sold:"
RE_TOTAL_LOTS    == "total lots:"
RE_TOTAL_QTY     == "total qty:"
RE_MIN_PRICE     == "min price:"
RE_AVG_PRICE     == "avg price:"
RE_QTY_AVG_PRICE == "qty avg price:"
RE_MAX_PRICE     == "max price:"

CountFields == [times_sold |-> RE_TIMES_SOLD, total_lots |-> RE_TOTAL_LOTS,
                total_qty |-> RE_TOTAL_QTY]
PriceFields == [min_price |-> RE_MIN_PRICE, avg_price |-> RE_AVG_PRICE,
                qty_avg_price |-> RE_QTY_AVG_PRICE, max_price |-> RE_MAX_PRICE]

\* r"<label>\s*(\d+)" matched with the label ending at text[p]: the group's
\* first and one-past-last positions, or <<0, 0>>.
CountAt(text, p, label) ==
    IF label \notin LabelsEnding(text[p]) THEN <<0, 0>>
    ELSE LET q == RunEnd(text, p + 1, Space)
             e == RunEnd(text, q, Digit)
         IN  IF e > q THEN <<q, e>> ELSE <<0, 0>>

\* r"<label>\s*([A-Z]+)\s+([\d,\.]+)" matched with the label ending at
\* text[p]: the positions <<c, d, n, e>> of group 1 (text[c..d-1]) and group 2
\* (text[n..e-1]), or four zeros. No atom belongs to two of the classes, so
\* giving back part of a greedy run never turns a failure into a match.
PriceAt(text, p, label) ==
    IF label \notin LabelsEnding(text[p]) THEN <<0, 0, 0, 0>>
    ELSE LET c == RunEnd(text, p + 1, Space)
             d == RunEnd(text, c, Letters)
             n == RunEnd(text, d, Space)
             e == RunEnd(text, n, NumChars)
         IN  IF d > c /\ n > d /\ e > n THEN <<c, d, n, e>> ELSE <<0, 0, 0, 0>>

\* pattern.search(text): the match at the leftmost position, or NoMatch.
NoMatch == <<>>

SearchCount(label, text) ==
    LET hits == {p \in 1..Len(text) : CountAt(text, p, label) # <<0, 0>>}
    IN  IF hits = {} THEN NoMatch
        ELSE LET g == CountAt(text, Least(hits), label)
             IN  << Sub(text, g[1], g[2]) >>

SearchPrice(label, text) ==
    LET hits == {p \in 1..Len(text) : PriceAt(text, p, label) # <<0, 0, 0, 0>>}
    IN  IF hits = {} THEN NoMatch
        ELSE LET g == PriceAt(text, Least(hits), label)
             IN  << Sub(text, g[1], g[2]), Sub(text, g[3], g[4]) >>

DigitValue(a) == 5                                      \* the only digit atom

RECURSIVE ToInt(_)
\* int(digits)
ToInt(ds) ==
    IF ds = <<>> THEN 0
    ELSE 10 * ToInt(SubSeq(ds, 1, Len(ds) - 1)) + DigitValue(ds[Len(ds)])

Dots(s) == {i \in 1..Len(s) : s[i] = "."}

\* float(s) raises ValueError unless s is digits with at most one dot and at
\* least one digit ("5.", ".5" and "5" convert; ".", "" and "5.5.5" do not).
FloatOk(s) ==
    /\ \A i \in 1..Len(s) : s[i] \in Digit \cup {"."}
    /\ Cardinality(Dots(s)) <= 1
    /\ \E i \in 1..Len(s) : s[i] \in Digit

\* The value of float(s) for a convertible s: its whole part and the digits
\* of its fraction.
Float(s) ==
    LET d == IF Dots(s) = {} THEN Len(s) + 1 ELSE Least(Dots(s))
    IN  [whole |-> ToInt(Sub(s, 1, d)), frac |-> Sub(s, d + 1, Len(s) + 1)]

\* A faulty variant of IsUnavailable: the text not lower-cased before the test.
IsUnavailableCaseSensitive(text) ==
    \E i \in 1..Len(text) : text[i] = "(unavailable)"

\* "(unavailable)" in text.lower()
IsUnavailable(text) ==
    \E i \in 1..Len(text) : Lower(text[i]) = "(unavailable)"

\* The dictionary data of extract_price_box once all seven searches are done,
\* given that no conversion raised.
BoxData(text) ==
    LET counts == {f \in DOMAIN CountFields : SearchCount(CountFields[f], text) # NoMatch}
        prices == {f \in DOMAIN PriceFields : SearchPrice(PriceFields[f], text) # NoMatch}
    IN  [f \in counts \cup prices |->
            IF f \in counts
            THEN ToInt(SearchCount(CountFields[f], text)[1])
            ELSE LET m == SearchPrice(PriceFields[f], text)
                 IN  [currency |-> Upper(m[1][1]),
                      amount |-> Float(RemoveCommas(m[2]))]]

\* return data if data else None
EmptyToNone(data) == IF DOMAIN data = {} THEN None ELSE data

\* extract_price_box(box): what it returns, or the exception it raises. int()
\* of a \d+ group never raises; float() of a [\d,\.]+ group may.
extract_price_box(b) ==
    LET text == BoxText(b)
    IN  IF IsUnavailable(text) THEN Returned(None)
        ELSE IF \E f \in DOMAIN PriceFields :
                    LET m == SearchPrice(PriceFields[f], text)
                    IN  m # NoMatch /\ ~FloatOk(RemoveCommas(m[2]))
             THEN Raised("ValueError")
             ELSE Returned(EmptyToNone(BoxData(text)))

(***************************************************************************)
(* extract_price_box on its own: one bucket container, any markup of at    *)
(* most MaxBoxLen symbols.                                                 *)
(***************************************************************************)
ExtractBox ==
    /\ bucket = Pending
    /\ bucket' = extract_price_box(box)
    /\ UNCHANGED <<box, fetchVars, itemVars, mainVars>>

(***************************************************************************)
(* src/scrape-bricklink.py: scrape_bricklink_item.                         *)
(***************************************************************************)
\* The keys and values a query string is made of. "p" is not a type key: the
\* test `key in params` is case-sensitive. A pair with an empty value stands
\* for "P=" and for a bare "P".
QueryKeys   == {"P", "S", "B", "p"}
QueryValues == {<<>>, <<"1">>, <<"2">>}
Queries     == Markups([k : QueryKeys, v : QueryValues], MaxParams)

\* urllib.parse.parse_qs(parsed.query): the pairs with a blank value are
\* dropped (keep_blank_values defaults to False); each remaining key maps to
\* the list of its values in the order of the query string.
parse_qs(q) ==
    [k \in {q[i].k : i \in {j \in 1..Len(q) : q[j].v # <<>>}} |->
        LET own == SelectSeq(q, LAMBDA pr : pr.k = k /\ pr.v # <<>>)
        IN  [i \in 1..Len(own) |-> own[i].v]]

\* A faulty variant of TypeKeys: the list in another order.
TypeKeysReordered == <<"S", "P", "M", "G", "C", "I", "O", "B">>

\* for key in ['P', 'S', 'M', 'G', 'C', 'I', 'O', 'B']
TypeKeys == <<"P", "S", "M", "G", "C", "I", "O", "B">>

\* The loop of lines 42-46: <<item_type, item_id>> when it ends.
DetectType(params) ==
    LET present == {i \in 1..Len(TypeKeys) : TypeKeys[i] \in DOMAIN params}
    IN  IF present = {} THEN <<NoneStr, NoneStr>>
        ELSE LET key == TypeKeys[Least(present)]
             IN  << <<key>>, params[key][1] >>

\* Python's `not x` for None and strings.
Falsy(x) == x = NoneStr \/ x = <<>>

PricingNames == <<"six_month_new", "six_month_used", "current_new", "current_used">>

\* The bucket containers a price-guide page may hold.
BoxSamples ==
    { <<"Times Sold:", " ", "5", "|", "Avg Price:", " ", "usd", " ", "5", ",", "5", ".", "5">>,
      <<"(UNAVAILABLE)">>,
      <<"Avg Price:", " ", "usd", " ", "5", ".", "5", ".", "5">>,
      <<"usd", " ", "5">> }

Pages == Markups(BoxSamples, MaxBoxes)

\* What select_one(...) and .text.strip() may give for title and weight.
BasicInfos == [title : {NoneStr, <<"Race Car">>}, weight : {NoneStr, <<"469.3g">>}]

\* Lines 35-49: the locator, or ValueError before any request.
ParseUrl ==
    /\ fpc = "parse_url"
    /\ LET found == DetectType(parse_qs(url))
       IN  /\ item_type' = found[1]
           /\ item_id' = found[2]
           /\ IF Falsy(found[1]) \/ Falsy(found[2])
              THEN fpc' = "raised" /\ result' = Raised("ValueError: no item type and ID")
              ELSE fpc' = "get_item" /\ result' = result
    /\ UNCHANGED <<url, requests, basic, price_boxes, bi, pricing_data>>
    /\ UNCHANGED <<boxVars, itemVars, mainVars>>

\* A faulty variant of FetchFailed: a failed request is not an error.
FetchFailedIgnored(outcome) == FALSE

\* requests.get raises on a transport error (timeout, connection), and
\* raise_for_status raises on a 4xx or 5xx status.
FetchFailed(outcome) == outcome \in {"transport error", "error status"}

FetchOutcomes == {"ok", "transport error", "error status"}

\* Lines 58-68: the item page. url is not read after line 58; the model
\* forgets it there.
GetItemPage ==
    /\ fpc = "get_item"
    /\ \E outcome \in FetchOutcomes :
          /\ requests' = Append(requests, [page |-> "item page", outcome |-> outcome])
          /\ IF FetchFailed(outcome)
             THEN /\ fpc' = "raised"
                  /\ result' = Raised("requests exception")
                  /\ basic' = basic
             ELSE /\ fpc' = "get_price"
                  /\ result' = result
                  /\ basic' \in BasicInfos
    /\ url' = <<>>
    /\ UNCHANGED <<item_type, item_id, price_boxes, bi, pricing_data>>
    /\ UNCHANGED <<boxVars, itemVars, mainVars>>

\* Lines 71-79 and 145-150: the price-guide page and its bucket containers.
GetPriceGuide ==
    /\ fpc = "get_price"
    /\ \E outcome \in FetchOutcomes :
          /\ requests' = Append(requests, [page |-> "price guide", outcome |-> outcome])
          /\ IF FetchFailed(outcome)
             THEN /\ fpc' = "raised"
                  /\ result' = Raised("requests exception")
                  /\ UNCHANGED <<price_boxes, bi, pricing_data>>
             ELSE /\ fpc' = "extract"
                  /\ result' = result
                  /\ price_boxes' \in Pages
                  /\ bi' = 1
                  /\ pricing_data' = [n \in {PricingNames[i] : i \in 1..4} |-> None]
    /\ UNCHANGED <<url, item_type, item_id, basic>>
    /\ UNCHANGED <<boxVars, itemVars, mainVars>>

\* A faulty variant of EnoughBoxes: an off-by-one threshold.
EnoughBoxesFive(boxes) == Len(boxes) >= 5

\* if len(price_boxes) >= 4
EnoughBoxes(boxes) == Len(boxes) >= 4

\* Lines 153-156, one assignment at a time: an exception of extract_price_box
\* is not caught and ends the call.
ExtractBucket ==
    /\ fpc = "extract"
    /\ EnoughBoxes(price_boxes)
    /\ bi <= 4
    /\ LET got == extract_price_box(price_boxes[bi])
       IN  IF got.kind = "raise"
           THEN /\ fpc' = "raised"
                /\ result' = got
                /\ UNCHANGED <<bi, pricing_data>>
           ELSE /\ pricing_data' = [pricing_data EXCEPT ![PricingNames[bi]] = got.value]
                /\ bi' = bi + 1
                /\ UNCHANGED <<fpc, result>>
    /\ UNCHANGED <<url, item_type, item_id, requests, basic, price_boxes>>
    /\ UNCHANGED <<boxVars, itemVars, mainVars>>

\* Lines 158-164.
ReturnSummary ==
    /\ fpc = "extract"
    /\ ~EnoughBoxes(price_boxes) \/ bi > 4
    /\ fpc' = "returned"
    /\ result' = Returned([item_id |-> item_id, item_type |-> item_type,
                           title |-> basic.title, weight |-> basic.weight,
                           pricing |-> pricing_data])
    /\ UNCHANGED <<url, item_type, item_id, requests, basic, price_boxes, bi,
                   pricing_data>>
    /\ UNCHANGED <<boxVars, itemVars, mainVars>>

NextFetch ==
    \/ ParseUrl
    \/ GetItemPage
    \/ GetPriceGuide
    \/ ExtractBucket
    \/ ReturnSummary

(***************************************************************************)
(* src/parse-shopee.py: the body of the loop of parse_shopee_html.         *)
(***************************************************************************)
\* The child elements a product-item container may have, each by the class
\* pattern it matches: the title (line-clamp-2), the price
\* (text-base/5.*font-medium), the sold label (text-shopee-black87.*text-xs),
\* and any other element.
NameDiv   == "<div.line-clamp-2>"
PriceSpan == "<span.text-base/5 font-medium>"
SoldDiv   == "<div.text-shopee-black87 text-xs>"
OtherDiv  == "<div>"
ElementStarts == {NameDiv, PriceSpan, SoldDiv, OtherDiv}

\* The atoms of a container's text.
ItemAtoms   == {"Lego", "12345", ",", "RM", "sold", " "}
ItemSymbols == ItemAtoms \cup ElementStarts

FiveDigits == {"12345"}                                 \* \d{5}
PriceChars == {"12345", ",", "."}                       \* [0-9,.]
SoldChars  == {"12345", ",", ".", "k", "K", "+"}        \* [0-9kK.+,]

RECURSIVE Elements(_)
\* The children of a container in document order, each with its text: first
\* the text that stands before any child element, then one entry per element.
Elements(m) ==
    IF m = <<>> THEN << [start |-> "", text |-> <<>>] >>
    ELSE LET rest == Elements(Tail(m))
         IN  IF Head(m) \in ElementStarts
             THEN << [start |-> "", text |-> <<>>],
                     [start |-> Head(m), text |-> Head(rest).text] >> \o Tail(rest)
             ELSE << [start |-> "", text |-> <<Head(m)>> \o Head(rest).text] >>
                  \o Tail(rest)

\* item.find(tag, class_=pattern): the first matching element, or None.
Find(m, start) ==
    LET es   == Elements(m)
        hits == {i \in 1..Len(es) : es[i].start = start}
    IN  IF hits = {} THEN None ELSE es[Least(hits)]

\* item.get_text(): all the text of the container, nothing stripped.
ItemText(m) == SelectSeq(m, LAMBDA a : a \notin ElementStarts)

\* re.compile(r'LEGO.*\d{5}', re.IGNORECASE) found in one text node.
NameMatches(node) ==
    \E i, j \in 1..Len(node) :
        i < j /\ Lower(node[i]) = "lego" /\ node[j] \in FiveDigits

\* item.find_all(string=...): the text nodes (non-empty strings) that match.
NameNodes(m) ==
    LET es == Elements(m)
        ts == [i \in 1..Len(es) |-> es[i].text]
    IN  SelectSeq(ts, LAMBDA t : t # <<>> /\ NameMatches(t))

\* Lines 20-28.
ProductName(m) ==
    LET first == IF NameNodes(m) # <<>> THEN Strip(NameNodes(m)[1]) ELSE NoneStr
        name_div == Find(m, NameDiv)
    IN  IF ~Falsy(first) THEN first
        ELSE IF name_div # None THEN Strip(name_div.text)
        ELSE first

\* re.search(r'RM\s*([0-9,.]+)', text): group 1, or NoMatch.
SearchRM(text) ==
    LET end(p) == RunEnd(text, RunEnd(text, p + 1, Space), PriceChars)
        hits == {p \in 1..Len(text) :
                    text[p] = "RM" /\ end(p) > RunEnd(text, p + 1, Space)}
    IN  IF hits = {} THEN NoMatch
        ELSE << Sub(text, RunEnd(text, Least(hits) + 1, Space), end(Least(hits))) >>

\* Lines 31-39.
Price(m) ==
    LET price_span == Find(m, PriceSpan)
        first == IF price_span # None
                 THEN RemoveCommas(Strip(price_span.text)) ELSE NoneStr
        price_match == SearchRM(ItemText(m))
    IN  IF ~Falsy(first) THEN first
        ELSE IF price_match # NoMatch THEN RemoveCommas(price_match[1])
        ELSE first

\* re.search(r'([0-9kK.+,]+)\s*sold', text): group 1, or NoMatch. A match
\* that starts at i takes the whole run of class atoms from i: a shorter one
\* would have to be followed by \s or "sold".
SearchSold(text) ==
    LET hits == {i \in 1..Len(text) :
                    /\ text[i] \in SoldChars
                    /\ LET w == RunEnd(text, RunEnd(text, i, SoldChars), Space)
                       IN  w <= Len(text) /\ text[w] = "sold"}
    IN  IF hits = {} THEN NoMatch
        ELSE << Sub(text, Least(hits), RunEnd(text, Least(hits), SoldChars)) >>

\* Lines 42-52.
SoldUnits(m) ==
    LET sold_div == Find(m, SoldDiv)
        in_div == IF sold_div # None THEN SearchSold(sold_div.text) ELSE NoMatch
        first == IF in_div # NoMatch THEN Strip(in_div[1]) ELSE NoneStr
        in_text == SearchSold(ItemText(m))
    IN  IF ~Falsy(first) THEN first
        ELSE IF in_text # NoMatch THEN Strip(in_text[1])
        ELSE first

NA == <<"N/A">>

\* A faulty variant of Appended: the record is appended whether or not a name was
\* resolved.
AppendedAlways(m) ==
    << [Product_Name |-> ProductName(m),
        Price_RM     |-> IF ~Falsy(Price(m)) THEN Price(m) ELSE NA,
        Units_Sold   |-> IF ~Falsy(SoldUnits(m)) THEN SoldUnits(m) ELSE NA] >>

\* Lines 54-59: what one container appends to products.
Appended(m) ==
    IF ~Falsy(ProductName(m))
    THEN << [Product_Name |-> ProductName(m),
             Price_RM     |-> IF ~Falsy(Price(m)) THEN Price(m) ELSE NA,
             Units_Sold   |-> IF ~Falsy(SoldUnits(m)) THEN SoldUnits(m) ELSE NA] >>
    ELSE <<>>

\* The loop body on one container, with no exception raised.
ProcessContainer ==
    /\ emitted = Pending
    /\ emitted' = Returned(Appended(container))
    /\ UNCHANGED <<container, boxVars, fetchVars, mainVars>>

(***************************************************************************)
(* src/parse-shopee.py: parse_shopee_html and main.                        *)
(***************************************************************************)
\* File names, in their lexicographic order: shop-listing-1.txt, -2.txt, ...
FileNames == 1..MaxFiles

Range(s) == {s[i] : i \in 1..Len(s)}

\* The lists glob.glob may return: the matching files, in any order.
Globs == {g \in Markups(FileNames, MaxFiles) : Cardinality(Range(g)) = Len(g)}

\* A faulty variant of Sorted: the list left in glob's order.
Unsorted(s) == s

RECURSIVE Sorted(_)
\* sorted(s)
Sorted(s) ==
    IF s = <<>> THEN <<>>
    ELSE LET least == Least(Range(s))
         IN  <<least>> \o Sorted(SelectSeq(s, LAMBDA x : x # least))

\* The product-item containers a file may hold.
ItemSamples ==
    { <<OtherDiv, " ", "Lego", " ", "12345", " ", PriceSpan, "RM", "12345", ",", "12345",
        SoldDiv, "12345", ",", "12345", " ", "sold">>,
      <<NameDiv, "Lego", OtherDiv, "RM", " ", "12345">>,
      <<OtherDiv, "Lego", OtherDiv, "12345", " ", "sold">> }

Documents == Markups(ItemSamples, MaxItems)

\* Where the body of the try may raise: nowhere, in one of the extraction
\* steps (lines 20-52), or in the print of line 61, after the append.
Faults == {"none", "extraction", "print"}

\* The try body on one container under a fault: what it appends, and whether
\* it leaves by an exception. Line 61 is reached only with a name.
TryBody(m, f) ==
    CASE f = "none"       -> [appended |-> Appended(m), raised |-> FALSE]
      [] f = "extraction" -> [appended |-> <<>>, raised |-> TRUE]
      [] f = "print"      -> [appended |-> Appended(m), raised |-> Appended(m) # <<>>]

\* Line 70.
Glob ==
    /\ pc = "glob"
    /\ files' = Sorted(matched)
    /\ fi' = 1
    /\ pc' = "for_file"
    /\ UNCHANGED <<matched, items, idx, products, all_products, csv, csv_opens, opened>>
    /\ UNCHANGED <<boxVars, fetchVars, itemVars>>

\* Lines 74-77 and 9-15: the next file is opened, read and parsed; an error of
\* open or read is not caught and ends the run.
OpenFile ==
    /\ pc = "for_file"
    /\ fi <= Len(files)
    /\ opened' = Append(opened, files[fi])
    /\ \/ /\ items' \in Documents
          /\ products' = <<>>
          /\ idx' = 1
          /\ pc' = "for_item"
       \/ /\ pc' = "io_error"
          /\ UNCHANGED <<items, products, idx>>
    /\ UNCHANGED <<matched, files, fi, all_products, csv, csv_opens>>
    /\ UNCHANGED <<boxVars, fetchVars, itemVars>>

\* Lines 17-61: one turn of the loop.
ProcessItem ==
    /\ pc = "for_item"
    /\ idx <= Len(items)
    /\ \E f \in Faults :
          LET did == TryBody(items[idx], f)
          IN  /\ products' = products \o did.appended
              /\ IF did.raised
                 THEN pc' = "except" /\ idx' = idx
                 ELSE pc' = "for_item" /\ idx' = idx + 1
    /\ UNCHANGED <<matched, files, fi, items, all_products, csv, csv_opens, opened>>
    /\ UNCHANGED <<boxVars, fetchVars, itemVars>>

\* A faulty variant of AfterExcept: the exception is raised again.
AfterExceptReraise == "raised"

\* Lines 63-64: the handler prints and the loop goes on.
AfterExcept == "for_item"

HandleException ==
    /\ pc = "except"
    /\ pc' = AfterExcept
    /\ idx' = idx + 1
    /\ UNCHANGED <<matched, files, fi, items, products, all_products, csv, csv_opens,
                   opened>>
    /\ UNCHANGED <<boxVars, fetchVars, itemVars>>

\* Lines 66 and 78-79.
ReturnProducts ==
    /\ pc = "for_item"
    /\ idx > Len(items)
    /\ all_products' = all_products \o products
    /\ fi' = fi + 1
    /\ pc' = "for_file"
    /\ UNCHANGED <<matched, files, items, idx, products, csv, csv_opens, opened>>
    /\ UNCHANGED <<boxVars, fetchVars, itemVars>>

\* A faulty variant of ShouldExport: the file is written whatever was found.
ShouldExportAlways(records) == TRUE

\* if all_products
ShouldExport(records) == records # <<>>

\* Lines 82-88, with records to write.
WriteCsv ==
    /\ pc = "for_file"
    /\ fi > Len(files)
    /\ ShouldExport(all_products)
    /\ csv' = [exists |-> TRUE, rows |-> all_products]
    /\ csv_opens' = csv_opens + 1
    /\ pc' = "done"
    /\ UNCHANGED <<matched, files, fi, items, idx, products, all_products, opened>>
    /\ UNCHANGED <<boxVars, fetchVars, itemVars>>

\* Line 82, with nothing to write.
SkipCsv ==
    /\ pc = "for_file"
    /\ fi > Len(files)
    /\ ~ShouldExport(all_products)
    /\ pc' = "done"
    /\ UNCHANGED <<matched, files, fi, items, idx, products, all_products, csv,
                   csv_opens, opened>>
    /\ UNCHANGED <<boxVars, fetchVars, itemVars>>

NextMain ==
    \/ Glob
    \/ OpenFile
    \/ ProcessItem
    \/ HandleException
    \/ ReturnProducts
    \/ WriteCsv
    \/ SkipCsv

(***************************************************************************)
(* The specifications: one per program and one per function checked on its *)
(* own. The variables of the other parts stay at rest.                     *)
(***************************************************************************)
\* extract_price_box on any container of at most MaxBoxLen symbols.
InitBox ==
    /\ box \in Markups(BoxSymbols, MaxBoxLen) /\ bucket = Pending
    /\ fpc = "idle" /\ url = <<>> /\ item_type = NoneStr /\ item_id = NoneStr
    /\ requests = <<>> /\ basic = None /\ price_boxes = <<>> /\ bi = 0
    /\ pricing_data = None /\ result = Pending
    /\ container = <<>> /\ emitted = Pending
    /\ pc = "idle" /\ matched = <<>> /\ files = <<>> /\ fi = 0 /\ items = <<>>
    /\ idx = 0 /\ products = <<>> /\ all_products = <<>>
    /\ csv = [exists |-> FALSE, rows |-> <<>>] /\ csv_opens = 0 /\ opened = <<>>

SpecBox == InitBox /\ [][ExtractBox]_vars

\* scrape_bricklink_item on any url of at most MaxParams parameters.
InitFetch ==
    /\ box = <<>> /\ bucket = Pending
    /\ fpc = "parse_url" /\ url \in Queries /\ item_type = NoneStr /\ item_id = NoneStr
    /\ requests = <<>> /\ basic = None /\ price_boxes = <<>> /\ bi = 0
    /\ pricing_data = None /\ result = Pending
    /\ container = <<>> /\ emitted = Pending
    /\ pc = "idle" /\ matched = <<>> /\ files = <<>> /\ fi = 0 /\ items = <<>>
    /\ idx = 0 /\ products = <<>> /\ all_products = <<>>
    /\ csv = [exists |-> FALSE, rows |-> <<>>] /\ csv_opens = 0 /\ opened = <<>>

SpecFetch == InitFetch /\ [][NextFetch]_vars

\* The loop body of parse_shopee_html on any container of at most MaxTokens
\* symbols.
InitItem ==
    /\ box = <<>> /\ bucket = Pending
    /\ fpc = "idle" /\ url = <<>> /\ item_type = NoneStr /\ item_id = NoneStr
    /\ requests = <<>> /\ basic = None /\ price_boxes = <<>> /\ bi = 0
    /\ pricing_data = None /\ result = Pending
    /\ container \in Markups(ItemSymbols, MaxTokens) /\ emitted = Pending
    /\ pc = "idle" /\ matched = <<>> /\ files = <<>> /\ fi = 0 /\ items = <<>>
    /\ idx = 0 /\ products = <<>> /\ all_products = <<>>
    /\ csv = [exists |-> FALSE, rows |-> <<>>] /\ csv_opens = 0 /\ opened = <<>>

SpecItem == InitItem /\ [][ProcessContainer]_vars

\* main of parse-shopee.py in a directory of at most MaxFiles matching files.
InitMain ==
    /\ box = <<>> /\ bucket = Pending
    /\ fpc = "idle" /\ url = <<>> /\ item_type = NoneStr /\ item_id = NoneStr
    /\ requests = <<>> /\ basic = None /\ price_boxes = <<>> /\ bi = 0
    /\ pricing_data = None /\ result = Pending
    /\ container = <<>> /\ emitted = Pending
    /\ pc = "glob" /\ matched \in Globs /\ files = <<>> /\ fi = 0 /\ items = <<>>
    /\ idx = 0 /\ products = <<>> /\ all_products = <<>>
    /\ csv = [exists |-> FALSE, rows |-> <<>>] /\ csv_opens = 0 /\ opened = <<>>

SpecMain == InitMain /\ [][NextMain]_vars

(***************************************************************************)
(* The properties.                                                         *)
(***************************************************************************)
HasComma(s) == \E i \in 1..Len(s) : s[i] = ","

\* A container has a name when one of its text nodes holds the brand followed
\* by a five-digit code, or else when its first line-clamp-2 element has text
\* that is not blank.
NameResolved(m) ==
    \/ \E i \in 1..Len(Elements(m)) : NameMatches(Elements(m)[i].text)
    \/ /\ Find(m, NameDiv) # None
       /\ \E i \in 1..Len(Find(m, NameDiv).text) : Find(m, NameDiv).text[i] \notin Space

\* A container has a price when its first price element has text besides
\* blanks and commas, or else when an RM-prefixed number with something
\* besides commas stands in its full text.
PriceResolved(m) ==
    \/ /\ Find(m, PriceSpan) # None
       /\ \E i \in 1..Len(Find(m, PriceSpan).text) :
             Find(m, PriceSpan).text[i] \notin Space \cup {","}
    \/ /\ SearchRM(ItemText(m)) # NoMatch
       /\ \E i \in 1..Len(SearchRM(ItemText(m))[1]) : SearchRM(ItemText(m))[1][i] # ","

\* A container has a sold token when one stands before "sold" in its first
\* sold-label element, or else in its full text.
SoldResolved(m) ==
    \/ Find(m, SoldDiv) # None /\ SearchSold(Find(m, SoldDiv).text) # NoMatch
    \/ SearchSold(ItemText(m)) # NoMatch

C2_NoCommaInPriceNorSold ==
    emitted.kind = "return" =>
        \A i \in 1..Len(emitted.value) :
            /\ ~HasComma(emitted.value[i].Price_RM)
            /\ ~HasComma(emitted.value[i].Units_Sold)

\* C2, amended: the price of an emitted record contains no comma, whichever of
\* the price element and the RM-prefixed fallback produced it.
C2_NoCommaInPrice ==
    emitted.kind = "return" =>
        \A i \in 1..Len(emitted.value) : ~HasComma(emitted.value[i].Price_RM)

\* A record whose price comes from the fallback, matched on a number with a
\* comma in it.
C2_Witness ==
    /\ emitted.kind = "return"
    /\ Len(emitted.value) = 1
    /\ Find(container, PriceSpan) = None
    /\ SearchRM(ItemText(container)) # NoMatch
    /\ HasComma(SearchRM(ItemText(container))[1])
    /\ emitted.value[1].Price_RM # NA

IsPrefix(s, t) == Len(s) <= Len(t) /\ s = SubSeq(t, 1, Len(s))

C4_BucketErrorAbsorbed ==
    (Len(requests) = 2 /\ requests[2].outcome = "ok") => fpc # "raised"

BucketOf(i) == extract_price_box(price_boxes[i])

\* C5: with fewer than four bucket containers all four buckets of the result
\* are null; with four or more they are those of the first four containers,
\* in the order six_month_new, six_month_used, current_new, current_used.
C5_AllFourOrNone ==
    fpc = "returned" =>
        LET pricing == result.value.pricing
        IN  IF Len(price_boxes) < 4
            THEN /\ pricing.six_month_new = None
                 /\ pricing.six_month_used = None
                 /\ pricing.current_new = None
                 /\ pricing.current_used = None
            ELSE /\ \A i \in 1..4 : BucketOf(i).kind = "return"
                 /\ pricing.six_month_new = BucketOf(1).value
                 /\ pricing.six_month_used = BucketOf(2).value
                 /\ pricing.current_new = BucketOf(3).value
                 /\ pricing.current_used = BucketOf(4).value

\* A summary returned for a page of three containers, the first of which
\* holds a bucket that extract_price_box can read.
C5_Witness ==
    /\ fpc = "returned"
    /\ Len(price_boxes) = 3
    /\ BucketOf(1).kind = "return"
    /\ BucketOf(1).value # None

AnyCaseUnavailable == {"(unavailable)", "(Unavailable)", "(UNAVAILABLE)"}

AllFields == {"times_sold", "total_lots", "total_qty", "min_price", "avg_price",
              "qty_avg_price", "max_price"}

MatchesNoPattern(text) ==
    /\ \A f \in DOMAIN CountFields : SearchCount(CountFields[f], text) = NoMatch
    /\ \A f \in DOMAIN PriceFields : SearchPrice(PriceFields[f], text) = NoMatch

\* C6: a container whose text contains "(unavailable)" in any letter case
\* gives a null bucket, whatever else it contains; so does a container whose
\* text matches none of the seven patterns; a bucket that is not null has at
\* least one of the seven fields.
C6_UnavailableOrEmptyIsNull ==
    bucket.kind # "pending" =>
        /\ (\E i \in 1..Len(box) : box[i] \in AnyCaseUnavailable)
              => bucket.kind = "return" /\ bucket.value = None
        /\ MatchesNoPattern(BoxText(box))
              => bucket.kind = "return" /\ bucket.value = None
        /\ (bucket.kind = "return" /\ bucket.value # None)
              => DOMAIN bucket.value # {} /\ DOMAIN bucket.value \subseteq AllFields

\* A null bucket for a container marked unavailable in mixed case whose text
\* also has a count that would match.
C6_Witness ==
    /\ bucket.kind = "return"
    /\ bucket.value = None
    /\ \E i \in 1..Len(box) : box[i] = "(Unavailable)"
    /\ SearchCount(RE_TIMES_SOLD, BoxText(box)) # NoMatch

PriorityOrder == <<"P", "S", "M", "G", "C", "I", "O", "B">>

\* The locator the priority order gives among the keys of Given: the first of
\* the order that is in Given, or 0.
FirstByPriority(Given) ==
    IF \E i \in 1..8 : PriorityOrder[i] \in Given
    THEN Least({i \in 1..8 : PriorityOrder[i] \in Given})
    ELSE 0

\* The values of key k in the query string q, in its order.
ValuesOf(q, k) ==
    LET own == SelectSeq(q, LAMBDA pr : pr.k = k) IN [i \in 1..Len(own) |-> own[i].v]

NonBlank(vs) == SelectSeq(vs, LAMBDA v : v # <<>>)

UrlParsed == fpc = "get_item" \/ (fpc = "raised" /\ requests = <<>>)

\* C7, as claimed: when the query string carries two or more of the type
\* parameters, the kind is the first of them in the priority order, whatever
\* their order in the query string, and the id is that parameter's first
\* value; when it carries none of them the call fails. (Stated here for the
\* calls that find a locator, so that a url whose every value is empty does
\* not count against the claim.)
C7_FirstCarriedKeyWins ==
    UrlParsed =>
        LET carried == {url[i].k : i \in 1..Len(url)} \cap Range(PriorityOrder)
            first == FirstByPriority(carried)
        IN  /\ carried = {} => fpc = "raised"
            /\ (Cardinality(carried) >= 2 /\ fpc = "get_item") =>
                  /\ item_type = <<PriorityOrder[first]>>
                  /\ item_id = ValuesOf(url, PriorityOrder[first])[1]

\* C7, amended: the kind is the first of the priority order among the type
\* parameters that have a non-empty value in the query string, whatever their
\* order in it, and the id is that parameter's first non-empty value; when no
\* type parameter has a non-empty value the call fails before any request.
C7_FirstNonBlankKeyWins ==
    UrlParsed =>
        LET first == FirstByPriority(
                        {url[i].k : i \in {j \in 1..Len(url) : url[j].v # <<>>}})
        IN  IF first = 0 THEN fpc = "raised" /\ result.kind = "raise"
            ELSE /\ fpc = "get_item"
                 /\ item_type = <<PriorityOrder[first]>>
                 /\ item_id = NonBlank(ValuesOf(url, PriorityOrder[first]))[1]

\* A url with S before P, both with a value: the kind is P.
C7_Witness ==
    /\ fpc = "get_item"
    /\ Len(url) = 2
    /\ url[1].k = "S" /\ url[1].v # <<>>
    /\ url[2].k = "P" /\ url[2].v # <<>>
    /\ item_type = <<"P">>

\* C8: at most two requests are issued, the item page and then the price
\* guide, none twice; a url without a locator fails before any request; a
\* failed request is the last one and fails the call, which then returns
\* nothing; a summary is returned only after two successful requests.
C8_TwoRequestsNoRetry ==
    /\ Len(requests) <= 2
    /\ \A i \in 1..Len(requests) : requests[i].page = <<"item page", "price guide">>[i]
    /\ \A i \in 1..Len(requests) :
          requests[i].outcome # "ok" =>
              i = Len(requests) /\ fpc = "raised" /\ result.kind = "raise"
    /\ (fpc = "raised" /\ item_type = NoneStr) => requests = <<>>
    /\ result.kind = "return" =>
          Len(requests) = 2 /\ \A i \in 1..2 : requests[i].outcome = "ok"

\* The price-guide request fails after a title was read from the item page.
C8_Witness ==
    /\ fpc = "raised"
    /\ Len(requests) = 2
    /\ requests[2].outcome = "error status"
    /\ basic.title # NoneStr
    /\ result.kind = "raise"

Increasing(s) == \A i, j \in 1..Len(s) : i < j => s[i] < s[j]

\* C9: the CSV file is written at most once, only after every input file was
\* opened, in sorted order, and parsed, and only with at least one record; with
\* no record no file is created; its rows are the accumulated records, each
\* file's records added after those of the files before it and each
\* container's record after those of the containers before it.
C9_CsvOnceAfterAllFiles ==
    /\ [](/\ csv_opens <= 1
          /\ Increasing(opened) /\ Range(opened) \subseteq Range(matched)
          /\ csv.exists =>
                /\ pc = "done"
                /\ Range(opened) = Range(matched)
                /\ csv.rows = all_products
                /\ csv.rows # <<>>
          /\ (pc = "done" /\ all_products = <<>>) => ~csv.exists /\ csv_opens = 0)
    /\ [][/\ IsPrefix(all_products, all_products')
          /\ all_products' # all_products =>
                pc = "for_item" /\ all_products' = all_products \o products
          /\ pc' \in {"for_item", "except"} /\ pc \in {"for_item", "except"} =>
                IsPrefix(products, products')]_vars

\* A file written from two input files that glob listed in reverse order.
C9_Witness ==
    /\ csv.exists
    /\ matched = <<2, 1>>
    /\ Len(csv.rows) >= 2

\* An entry "Avg Price: <currency> <number>" of its own in the text, one that
\* is not the tail of a "Qty Avg Price:" entry.
OwnAvgEntries(text) ==
    {p \in 1..Len(text) :
        Lower(text[p]) = "avg price:" /\ PriceAt(text, p, "avg price:") # <<0, 0, 0, 0>>}

\* C10, as claimed: avg_price is present only if the text has an "Avg Price:"
\* entry that is not part of a "Qty Avg Price:" entry, and its value is that
\* entry's.
C10_AvgPriceOnlyFromOwnLabel ==
    (bucket.kind = "return" /\ bucket.value # None /\ "avg_price" \in DOMAIN bucket.value)
        => LET text == BoxText(box)
           IN  /\ OwnAvgEntries(text) # {}
               /\ LET g == PriceAt(text, Least(OwnAvgEntries(text)), "avg price:")
                  IN  bucket.value.avg_price.amount
                        = Float(RemoveCommas(Sub(text, g[3], g[4])))

=============================================================================
